---------------------------- MODULE Spec2Model ----------------------------
(***************************************************************************)
(* A state-machine model of server/convertToGif.py: the command-line entry *)
(* point (lines 76-92) and convert_mp4_to_gif (lines 12-74).               *)
(*                                                                         *)
(* One run of the script is one behaviour.  The initial state fixes the    *)
(* argument list and the file found (or not) at the input path; the        *)
(* failures of the decoding and encoding libraries are chosen when the     *)
(* library is called.                                                      *)
(*                                                                         *)
(* Arithmetic: Python's float results (source_fps / target_fps and         *)
(* max_width * aspect_ratio) are modelled by exact rationals truncated     *)
(* toward zero.  For every value the model enumerates the double-precision *)
(* result and the exact one agree after truncation.                        *)
(***************************************************************************)
EXTENDS Integers, Sequences, FiniteSets

VARIABLES
    argv,          \* sys.argv: <<script, positional arguments...>>
    input_file,    \* what is at argv[1] on disk: None, or Some(source)
    output_file,   \* what this run left at output_path
    pc,            \* position of the run
    max_duration,  \* line 83 / parameter of convert_mp4_to_gif
    target_fps,    \* line 84 (fps) / parameter target_fps
    max_width,     \* line 85 (width) / parameter max_width
    source_fps,    \* line 26, a rational [num, den]
    frame_skip,    \* line 29
    max_frames,    \* line 35: None or Some(n)
    frames,        \* line 32: the frame buffer
    frame_count,   \* line 33
    reader,        \* frames the iterator of line 37 has yielded so far
    frame,         \* loop variable of line 37: None or Some(decoded frame)
    exc,           \* exception in flight to the handler of line 72
    success,       \* line 91: None, Some(TRUE) or Some(FALSE)
    stdout,        \* lines printed to standard output
    stderr,        \* lines printed to standard error
    exit_code,     \* None while running, Some(code) once exited
    io_log         \* file-system operations performed, in order

vars == <<argv, input_file, output_file, pc, max_duration, target_fps,
          max_width, source_fps, frame_skip, max_frames, frames, frame_count,
          reader, frame, exc, success, stdout, stderr, exit_code, io_log>>

main_locals == <<max_duration, target_fps, max_width>>
convert_locals == <<source_fps, frame_skip, max_frames, frames, frame_count,
                    reader, frame>>

---------------------------------------------------------------------------
\* Python's None and a present value.
None == <<>>
Some(x) == <<x>>
Val(o) == o[1]

\* Bound of the model: the longest source, in decoded frames.
MaxSourceFrames == 7

\* Program constants.
Sentinel == 999
DefaultMaxDuration == 10
DefaultFps == 10
DefaultWidth == 500
DefaultSourceFps == 30
MillisPerSecond == 1000
MinPositional == 3

---------------------------------------------------------------------------
\* Strings that int() is applied to, as character sequences.
Digits == <<"0", "1", "2", "3", "4", "5", "6", "7", "8", "9">>
IsDigit(c) == \E i \in 1..Len(Digits) : Digits[i] = c
DigitVal(c) == (CHOOSE i \in 1..Len(Digits) : Digits[i] = c) - 1

RECURSIVE DigitsVal(_)
DigitsVal(s) ==
    IF s = <<>> THEN 0
    ELSE DigitsVal(SubSeq(s, 1, Len(s) - 1)) * Len(Digits) + DigitVal(s[Len(s)])

Signed(s) == s # <<>> /\ s[1] \in {"+", "-"}
Magnitude(s) == IF Signed(s) THEN Tail(s) ELSE s

\* int(s) succeeds: an optional sign followed by at least one decimal digit.
int_ok(s) ==
    /\ Magnitude(s) # <<>>
    /\ \A i \in 1..Len(Magnitude(s)) : IsDigit(Magnitude(s)[i])

\* int(s) for a string that int() accepts.
int(s) ==
    IF Signed(s) /\ s[1] = "-" THEN 0 - DigitsVal(Magnitude(s))
    ELSE DigitsVal(Magnitude(s))

\* int(a / b) for integers a, b with b # 0: the quotient truncated toward zero.
Abs(a) == IF a < 0 THEN 0 - a ELSE a
TruncDiv(a, b) ==
    IF (a >= 0) = (b > 0) \/ a = 0 THEN Abs(a) \div Abs(b)
    ELSE 0 - (Abs(a) \div Abs(b))

Max(a, b) == IF a >= b THEN a ELSE b

---------------------------------------------------------------------------
\* The inputs the model enumerates.
DurationTokens ==
    { <<"1">>, <<"2">>, <<"9", "9", "9">>, <<"1", "0", "0", "0">>,
      <<"a", "b", "c">> }
FpsTokens == { <<"0">>, <<"1">>, <<"2">>, <<"1", "0">>, <<"-", "1">>, <<"1", ".", "5">> }
WidthTokens == { <<"4">>, <<"5", "0", "0">>, <<>> }

ArgLists ==
    { <<"convertToGif.py">>, <<"convertToGif.py", "in.mp4">>,
      <<"convertToGif.py", "in.mp4", "out.gif">> }
    \cup { <<"convertToGif.py", "in.mp4", "out.gif", d>> : d \in DurationTokens }
    \cup { <<"convertToGif.py", "in.mp4", "out.gif", d, f>> :
             d \in DurationTokens, f \in FpsTokens }
    \cup { <<"convertToGif.py", "in.mp4", "out.gif", d, f, w>> :
             d \in DurationTokens, f \in FpsTokens, w \in WidthTokens }

\* Frame rates a probe reports: None (no 'fps' key) or a rational.
ProbedFps ==
    { None, Some([num |-> 2, den |-> 1]), Some([num |-> 5, den |-> 1]),
      Some([num |-> 30, den |-> 1]), Some([num |-> 2997, den |-> 100]) }

FrameSizes ==
    { [width |-> 7, height |-> 5], [width |-> 4, height |-> 3],
      [width |-> 640, height |-> 360], [width |-> 9, height |-> 1] }

\* A source video: its metadata, its length in frames, its frame size.
Sources ==
    [fps : ProbedFps, length : 0..MaxSourceFrames, size : FrameSizes]

\* The i-th decoded frame of a source (i from 0).
Decoded(src, i) ==
    [index |-> i, width |-> src.size.width, height |-> src.size.height]

Line(kind, text, n) == [kind |-> kind, text |-> text, n |-> n]

NoFps == [num |-> 0, den |-> 1]

Init ==
    /\ argv \in ArgLists
    /\ input_file \in {None} \cup { Some(s) : s \in Sources }
    /\ output_file = None
    /\ pc = "main"
    /\ max_duration = 0 /\ target_fps = 0 /\ max_width = 0
    /\ source_fps = NoFps /\ frame_skip = 0 /\ max_frames = None
    /\ frames = <<>> /\ frame_count = 0 /\ reader = 0 /\ frame = None
    /\ exc = None /\ success = None
    /\ stdout = <<>> /\ stderr = <<>>
    /\ exit_code = None
    /\ io_log = <<>>


---------------------------------------------------------------------------
\* sys.argv[i] (Python indexes from 0).
Arg(i) == argv[i + 1]
input_path == Arg(1)
output_path == Arg(2)

\* Line 29 with the quotient rounded to nearest instead of truncated.
FrameSkip_rounded(sfps, tfps) ==
    IF tfps > 0
    THEN Max(1, (2 * sfps.num + sfps.den * tfps) \div (2 * sfps.den * tfps))
    ELSE 1

\* Line 29: frame_skip = max(1, int(source_fps / target_fps)), target_fps # 0.
FrameSkip(sfps, tfps) == Max(1, TruncDiv(sfps.num, sfps.den * tfps))

\* Line 35: max_frames = None if max_duration >= 999 else int(max_duration * target_fps).
FrameCap(dur, tfps) == IF dur >= Sentinel THEN None ELSE Some(dur * tfps)

\* Line 38 keeping the last frame of each stride instead of the first.
Keep_last(count, skip) == count % skip = skip - 1

\* Line 38 testing the count after the increment of line 54.
Keep_shifted(count, skip) == (count + 1) % skip = 0

\* Line 38: the decoded frame numbered count is retained.
Keep(count, skip) == count % skip = 0

\* Lines 44-45: new_height = int(max_width * (height / width)).
NewHeight(f, mw) == TruncDiv(mw * f.height, f.width)

\* Lines 43-46: the frame as it is appended.
Resized(f, mw) ==
    IF f.width > mw
    THEN [f EXCEPT !.width = mw, !.height = NewHeight(f, mw)]
    ELSE f

\* Line 46: resize() rejects a target size with a side below 1.
ResizeRaises(f, mw) == f.width > mw /\ (mw < 1 \/ NewHeight(f, mw) < 1)

\* Line 51 with > for >=: one frame past the cap.
CapReached_strict(buf, cap) == cap # None /\ Len(buf) > Val(cap)

\* Line 51: max_frames is not None and len(frames) >= max_frames.
CapReached(buf, cap) == cap # None /\ Len(buf) >= Val(cap)

\* Line 56 without the check.
NoFrames_never(buf) == FALSE

\* Line 56: not frames.
NoFrames(buf) == buf = <<>>

\* Line 92: 0 if success else 1.
ExitStatus(ok) == IF ok THEN 0 ELSE 1

---------------------------------------------------------------------------
\* Lines 77-79: fewer than two positional arguments: usage text, exit 1.
CheckArgs ==
    /\ pc = "main"
    /\ IF Len(argv) < MinPositional
       THEN /\ stdout' = Append(stdout, Line("usage", "Usage: python convertToGif.py", <<>>))
            /\ exit_code' = Some(1)
            /\ pc' = "exited"
       ELSE /\ pc' = "parse"
            /\ UNCHANGED <<stdout, exit_code>>
    /\ UNCHANGED <<argv, input_file, output_file, main_locals, convert_locals,
                   exc, success, stderr, io_log>>

\* Lines 81-85: the optional arguments through int(), in order; a string
\* int() rejects raises ValueError outside any try: the interpreter prints a
\* traceback on standard error and exits with status 1.
ParseArgs ==
    /\ pc = "parse"
    /\ LET has3 == Len(argv) > 3
           has4 == Len(argv) > 4
           has5 == Len(argv) > 5
           ok3 == has3 => int_ok(Arg(3))
           ok4 == has4 => int_ok(Arg(4))
           ok5 == has5 => int_ok(Arg(5))
       IN /\ max_duration' =
                IF ~has3 THEN DefaultMaxDuration
                ELSE IF ok3 THEN int(Arg(3)) ELSE max_duration
          /\ target_fps' =
                IF ~ok3 THEN target_fps
                ELSE IF ~has4 THEN DefaultFps
                ELSE IF ok4 THEN int(Arg(4)) ELSE target_fps
          /\ max_width' =
                IF ~(ok3 /\ ok4) THEN max_width
                ELSE IF ~has5 THEN DefaultWidth
                ELSE IF ok5 THEN int(Arg(5)) ELSE max_width
          /\ IF ok3 /\ ok4 /\ ok5
             THEN /\ pc' = "exists"
                  /\ UNCHANGED <<stderr, exit_code>>
             ELSE /\ stderr' = Append(stderr,
                        Line("Traceback", "ValueError: invalid literal for int()", <<>>))
                  /\ exit_code' = Some(1)
                  /\ pc' = "exited"
    /\ UNCHANGED <<argv, input_file, output_file, convert_locals, exc, success,
                   stdout, io_log>>

\* Lines 87-91: the existence check, then the call of convert_mp4_to_gif.
CheckExists ==
    /\ pc = "exists"
    /\ io_log' = Append(io_log, "exists")
    /\ IF input_file = None
       THEN /\ stderr' = Append(stderr,
                  Line("ERROR", "Input file not found", <<input_path>>))
            /\ exit_code' = Some(1)
            /\ pc' = "exited"
       ELSE /\ pc' = "probe"
            /\ UNCHANGED <<stderr, exit_code>>
    /\ UNCHANGED <<argv, input_file, output_file, main_locals, convert_locals,
                   exc, success, stdout>>

\* Lines 25-26: the metadata probe; 'fps' defaults to 30.
Probe ==
    /\ pc = "probe"
    /\ io_log' = Append(io_log, "immeta")
    /\ source_fps' =
          IF Val(input_file).fps = None
          THEN [num |-> DefaultSourceFps, den |-> 1]
          ELSE Val(Val(input_file).fps)
    /\ pc' = "setup"
    /\ UNCHANGED <<argv, input_file, output_file, main_locals, frame_skip,
                   max_frames, frames, frame_count, reader, frame, exc, success,
                   stdout, stderr, exit_code>>

\* Line 25 raising: the file exists but the backend cannot read it.
ProbeFails ==
    /\ pc = "probe"
    /\ io_log' = Append(io_log, "immeta")
    /\ exc' = Some("cannot read metadata")
    /\ pc' = "except"
    /\ UNCHANGED <<argv, input_file, output_file, main_locals, convert_locals,
                   success, stdout, stderr, exit_code>>

\* Lines 29-35: the stride (ZeroDivisionError for target_fps = 0), the empty
\* buffer, the counter and the frame cap.
Setup ==
    /\ pc = "setup"
    /\ IF target_fps = 0
       THEN /\ exc' = Some("division by zero")
            /\ pc' = "except"
            /\ UNCHANGED <<frame_skip, max_frames, frames, frame_count>>
       ELSE /\ frame_skip' = FrameSkip(source_fps, target_fps)
            /\ frames' = <<>>
            /\ frame_count' = 0
            /\ max_frames' = FrameCap(max_duration, target_fps)
            /\ pc' = "loop"
            /\ UNCHANGED exc
    /\ UNCHANGED <<argv, input_file, output_file, main_locals, source_fps,
                   reader, frame, success, stdout, stderr, exit_code, io_log>>

\* Line 37: the iterator yields the next frame of the source.
DecodeFrame ==
    /\ pc = "loop"
    /\ reader < Val(input_file).length
    /\ io_log' = Append(io_log, "imiter")
    /\ frame' = Some(Decoded(Val(input_file), reader))
    /\ reader' = reader + 1
    /\ pc' = "body"
    /\ UNCHANGED <<argv, input_file, output_file, main_locals, source_fps,
                   frame_skip, max_frames, frames, frame_count, exc, success,
                   stdout, stderr, exit_code>>

\* Line 37: the iterator is exhausted; the loop ends.
EndOfSource ==
    /\ pc = "loop"
    /\ reader = Val(input_file).length
    /\ io_log' = Append(io_log, "imiter")
    /\ pc' = "collected"
    /\ UNCHANGED <<argv, input_file, output_file, main_locals, convert_locals,
                   exc, success, stdout, stderr, exit_code>>

\* Line 37 raising: a corrupt or truncated source, at any frame.
DecodeFails ==
    /\ pc = "loop"
    /\ io_log' = Append(io_log, "imiter")
    /\ exc' = Some("decode error")
    /\ pc' = "except"
    /\ UNCHANGED <<argv, input_file, output_file, main_locals, convert_locals,
                   success, stdout, stderr, exit_code>>

\* Lines 38-54, frame_count % frame_skip == 0: resize, append, then break at
\* the cap or count the frame and go on.
KeepFrame ==
    /\ pc = "body"
    /\ Keep(frame_count, frame_skip)
    /\ ~ResizeRaises(Val(frame), max_width)
    /\ frames' = Append(frames, Resized(Val(frame), max_width))
    /\ IF CapReached(frames', max_frames)
       THEN /\ pc' = "collected"
            /\ UNCHANGED frame_count
       ELSE /\ pc' = "loop"
            /\ frame_count' = frame_count + 1
    /\ UNCHANGED <<argv, input_file, output_file, main_locals, source_fps,
                   frame_skip, max_frames, reader, frame, exc, success, stdout,
                   stderr, exit_code, io_log>>

\* Line 46 raising ValueError for a target size with a side below 1.
ResizeFails ==
    /\ pc = "body"
    /\ Keep(frame_count, frame_skip)
    /\ ResizeRaises(Val(frame), max_width)
    /\ exc' = Some("height and width must be > 0")
    /\ pc' = "except"
    /\ UNCHANGED <<argv, input_file, output_file, main_locals, convert_locals,
                   success, stdout, stderr, exit_code, io_log>>

\* Lines 38 and 54: a frame off the stride is only counted.
SkipFrame ==
    /\ pc = "body"
    /\ ~Keep(frame_count, frame_skip)
    /\ frame_count' = frame_count + 1
    /\ pc' = "loop"
    /\ UNCHANGED <<argv, input_file, output_file, main_locals, source_fps,
                   frame_skip, max_frames, frames, reader, frame, exc, success,
                   stdout, stderr, exit_code, io_log>>

\* Lines 56-57: an empty buffer raises ValueError.
CheckFrames ==
    /\ pc = "collected"
    /\ IF NoFrames(frames)
       THEN /\ exc' = Some("No frames extracted from video")
            /\ pc' = "except"
       ELSE /\ pc' = "save"
            /\ UNCHANGED exc
    /\ UNCHANGED <<argv, input_file, output_file, main_locals, convert_locals,
                   success, stdout, stderr, exit_code, io_log>>

\* The file a save leaves at output_path.
Gif(buf, complete) ==
    [frames |-> buf, duration |-> TruncDiv(MillisPerSecond, target_fps),
     loop |-> 0, complete |-> complete]

\* Lines 60-67: the whole sequence written to output_path.
Save ==
    /\ pc = "save"
    /\ frames # <<>>
    /\ io_log' = Append(io_log, "save")
    /\ output_file' = Some(Gif(frames, TRUE))
    /\ pc' = "report"
    /\ UNCHANGED <<argv, input_file, main_locals, convert_locals, exc, success,
                   stdout, stderr, exit_code>>

\* Lines 60-67 raising.  frames[0] of an empty list is an IndexError.  The
\* library opens output_path for writing before it encodes, so a failure
\* comes either before the file exists (the open is refused) or after; what
\* is left of a file the encoder had begun depends on the library release:
\* it stays as written so far, or the library removes it.  Nothing in lines
\* 72-74 removes it.
SaveFails ==
    /\ pc = "save"
    /\ io_log' = Append(io_log, "save")
    /\ IF frames = <<>>
       THEN /\ exc' = Some("list index out of range")
            /\ UNCHANGED output_file
       ELSE /\ exc' = Some("write error")
            /\ \E left \in {None, Some(Gif(<<>>, FALSE))} : output_file' = left
    /\ pc' = "except"
    /\ UNCHANGED <<argv, input_file, main_locals, convert_locals, success,
                   stdout, stderr, exit_code>>

\* Lines 69-70: the SUCCESS line and the True result.
Report ==
    /\ pc = "report"
    /\ stdout' = Append(stdout,
          Line("SUCCESS", "Converted", <<input_path, output_path, Len(frames)>>))
    /\ success' = Some(TRUE)
    /\ pc' = "returned"
    /\ UNCHANGED <<argv, input_file, output_file, main_locals, convert_locals,
                   exc, stderr, exit_code, io_log>>

\* Lines 72-74: every Exception becomes an ERROR line and the False result.
Handler ==
    /\ pc = "except"
    /\ stderr' = Append(stderr, Line("ERROR", Val(exc), <<>>))
    /\ success' = Some(FALSE)
    /\ exc' = None
    /\ pc' = "returned"
    /\ UNCHANGED <<argv, input_file, output_file, main_locals, convert_locals,
                   stdout, exit_code, io_log>>

\* Line 92: sys.exit(0 if success else 1).
Exit ==
    /\ pc = "returned"
    /\ exit_code' = Some(ExitStatus(Val(success)))
    /\ pc' = "exited"
    /\ UNCHANGED <<argv, input_file, output_file, main_locals, convert_locals,
                   exc, success, stdout, stderr, io_log>>

Next ==
    \/ CheckArgs \/ ParseArgs \/ CheckExists
    \/ Probe \/ ProbeFails \/ Setup
    \/ DecodeFrame \/ EndOfSource \/ DecodeFails
    \/ KeepFrame \/ ResizeFails \/ SkipFrame
    \/ CheckFrames \/ Save \/ SaveFails
    \/ Report \/ Handler \/ Exit

Spec == Init /\ [][Next]_vars

---------------------------------------------------------------------------
\* Shorthands of the properties below.
InSeq(x, s) == \E i \in 1..Len(s) : s[i] = x
Source == Val(input_file)
NoFramesLine == Line("ERROR", "No frames extracted from video", <<>>)
\* Line 29 has run: the stride and the cap hold their values.
Configured == frame_skip >= 1
\* The loop of line 37 is running or has ended without an exception.
Decoding == pc \in {"loop", "body"}
Collected == pc \in {"collected", "save", "report"}
Succeeded == pc \in {"returned", "exited"} /\ success = Some(TRUE)
\* Frames of the source whose loop body has run.
Processed == IF pc = "body" THEN reader - 1 ELSE reader
CeilDiv(a, b) == (a + b - 1) \div b
Min(a, b) == IF a <= b THEN a ELSE b
StrideIndexes(n, stride) == { i \in 0..(n - 1) : i % stride = 0 }
BufferIndexes == { frames[k].index : k \in 1..Len(frames) }
InOrder == \A k \in 1..Len(frames) : frames[k].index = (k - 1) * frame_skip

\* C1: whenever a frame cap is set (positive max_duration and target_fps), the
\* buffer never holds more than max_frames frames, and once it holds
\* max_frames frames the iterator yields no further frame.
CapSet == Configured /\ max_frames # None /\ max_duration > 0 /\ target_fps > 0
C1_FrameCap ==
    /\ [](CapSet => /\ Val(max_frames) = max_duration * target_fps
                    /\ Len(frames) <= Val(max_frames))
    /\ [][(CapSet /\ Len(frames) = Val(max_frames)) => reader' = reader]_vars

\* C1 witness: a run that stopped at the cap with frames of the source left.
C1_Witness ==
    /\ CapSet /\ Succeeded
    /\ Len(frames) = Val(max_frames)
    /\ reader < Source.length

\* C3: with max_duration = 999 and no error, the loop consumes the whole source
\* and the buffer holds, in source order, exactly the frames whose index is a
\* multiple of the stride: ceil(N / stride) of them.
C3_SentinelKeepsAll ==
    (max_duration = Sentinel /\ (Collected \/ Succeeded)) =>
        /\ reader = Source.length
        /\ BufferIndexes = StrideIndexes(Source.length, frame_skip)
        /\ InOrder
        /\ Len(frames) = CeilDiv(Source.length, frame_skip)

\* C3 witness: a full-length source at stride 3, kept as frames 0, 3 and 6.
C3_Witness ==
    /\ max_duration = Sentinel /\ Succeeded
    /\ frame_skip > 2
    /\ Source.length = MaxSourceFrames
    /\ Len(frames) > 2

\* C7: an empty buffer at the end of decoding never reaches the write: the
\* run fails with the 'No frames extracted' ERROR line on standard error,
\* prints no SUCCESS line and creates no output file.
C7_EmptyBufferFails ==
    /\ [][(pc = "collected" /\ frames = <<>>) =>
            /\ pc' = "except"
            /\ exc' = Some(NoFramesLine.text)
            /\ output_file' = None /\ io_log' = io_log]_vars
    /\ [][(pc = "except" /\ exc = Some(NoFramesLine.text)) =>
            /\ stderr' = <<NoFramesLine>>
            /\ success' = Some(FALSE)]_vars
    /\ [](InSeq(NoFramesLine, stderr) =>
            /\ stdout = <<>>
            /\ output_file = None
            /\ ~InSeq("save", io_log)
            /\ success = Some(FALSE)
            /\ (pc = "exited" => exit_code = Some(1)))

\* C7 witness: a source without frames, run to its exit.
C7_Witness ==
    /\ pc = "exited" /\ frames = <<>>
    /\ input_file # None /\ reader = Source.length
    /\ stderr = <<NoFramesLine>>

\* C9: the stride is max(1, floor(source_fps / target_fps)) and, while decoding
\* and after it, the k-th buffered frame (k from 0) is source frame k * stride:
\* the buffer holds exactly the processed frames whose index is a multiple of
\* the stride.  Source rate 30 (probed or defaulted) and target 10 give
\* stride 3; a target at or above the source rate keeps every frame.
SpecStride == Max(1, source_fps.num \div (source_fps.den * target_fps))
C9_StrideSampling ==
    (Configured /\ target_fps > 0 /\ (Decoding \/ Collected \/ Succeeded)) =>
        /\ frame_skip = SpecStride
        /\ InOrder
        /\ BufferIndexes = StrideIndexes(Processed, frame_skip)
        /\ (source_fps.num = DefaultSourceFps * source_fps.den /\ target_fps = DefaultFps
               => frame_skip = 3)
        /\ (target_fps * source_fps.den >= source_fps.num => frame_skip = 1)

\* C9 witness: source rate 30, target 10, frames 0, 3 and 6 buffered.
C9_Witness ==
    /\ Configured /\ Decoding
    /\ source_fps.num = DefaultSourceFps * source_fps.den /\ target_fps = DefaultFps
    /\ Len(frames) = 3 /\ frames[3].index = 6

\* C10: for positive parameters and no error, the buffer is empty at the end
\* of decoding exactly when the source has no frames, and a successful run
\* reports min(cap, ceil(N / stride)) >= 1 frames (no cap when none is set).
ExpectedFrames ==
    IF max_frames = None THEN CeilDiv(Source.length, frame_skip)
    ELSE Min(Val(max_frames), CeilDiv(Source.length, frame_skip))
C10_EmptyOnlyForEmptySource ==
    (max_duration > 0 /\ target_fps > 0 /\ max_width > 0) =>
        /\ Collected => (frames = <<>> <=> Source.length = 0)
        /\ Succeeded =>
            /\ ExpectedFrames >= 1
            /\ stdout = <<Line("SUCCESS", "Converted",
                               <<input_path, output_path, ExpectedFrames>>)>>

\* C10 witness: a successful run cut by the cap below ceil(N / stride).
C10_Witness ==
    /\ max_duration > 0 /\ target_fps > 0 /\ max_width > 0
    /\ Succeeded /\ max_frames # None
    /\ Val(max_frames) < CeilDiv(Source.length, frame_skip)
    /\ Len(frames) > 1

\* C2: the frame cap is absent exactly when max_duration is 999; every other
\* positive max_duration, above 999 too, caps the buffer at
\* max_duration * target_fps frames.
C2_CapAbsentOnlyAtSentinel ==
    (Configured /\ max_duration > 0 /\ target_fps > 0) =>
        /\ max_frames = None <=> max_duration = Sentinel
        /\ max_frames # None =>
            /\ Val(max_frames) = max_duration * target_fps
            /\ Len(frames) <= Val(max_frames)

\* C4: a buffered frame of a source wider than max_width has width max_width
\* and height round(max_width * h / w), to nearest; any other keeps its size;
\* so no buffered frame is wider than max_width.
RoundDiv(a, b) == (2 * a + b) \div (2 * b)
C4_ResizeRounds ==
    (Configured /\ max_width > 0) =>
        \A k \in 1..Len(frames) :
            LET orig == Decoded(Source, frames[k].index)
            IN /\ frames[k].width <= max_width
               /\ IF orig.width > max_width
                  THEN /\ frames[k].width = max_width
                       /\ frames[k].height =
                             RoundDiv(max_width * orig.height, orig.width)
                  ELSE /\ frames[k].width = orig.width
                       /\ frames[k].height = orig.height

\* C5: every run ends either with exit code 0 and one SUCCESS line on
\* standard output, convert having returned True, or with exit code 1 and a
\* usage text or an ERROR line; no exception leaves the script uncaught.
IsKind(line, kind) == line.kind = kind
C5_TwoOutcomes ==
    pc = "exited" =>
        /\ \A i \in 1..Len(stderr) : ~IsKind(stderr[i], "Traceback")
        /\ \/ /\ exit_code = Some(0)
              /\ success = Some(TRUE)
              /\ Len(stdout) = 1 /\ IsKind(stdout[1], "SUCCESS")
              /\ stderr = <<>>
           \/ /\ exit_code = Some(1)
              /\ success # Some(TRUE)
              /\ \/ Len(stdout) = 1 /\ IsKind(stdout[1], "usage") /\ stderr = <<>>
                 \/ Len(stderr) = 1 /\ IsKind(stderr[1], "ERROR") /\ stdout = <<>>

\* C6: a run that ends in failure leaves no file, complete or partial, at
\* output_path; the output is created only by a run that reports success.
C6_NoOutputOnFailure ==
    /\ (pc = "exited" /\ exit_code # Some(0)) => output_file = None
    /\ (pc \in {"except", "returned", "exited"} /\ success # Some(TRUE))
           => output_file = None
    /\ output_file # None => Val(output_file).complete

\* C8: with fewer than two positional arguments the run prints usage and
\* exits 1 with no file-system access; with a missing input file it prints
\* 'ERROR: Input file not found: <path>' and exits 1 with no probe, decode or
\* write.
C8_PreChecksFirst ==
    /\ Len(argv) < MinPositional => io_log = <<>>
    /\ (Len(argv) >= MinPositional /\ input_file = None) =>
          \A i \in 1..Len(io_log) : io_log[i] = "exists"
    /\ pc = "exited" =>
          /\ Len(argv) < MinPositional =>
                /\ Len(stdout) = 1 /\ IsKind(stdout[1], "usage")
                /\ stderr = <<>> /\ exit_code = Some(1)
          /\ (Len(argv) >= MinPositional /\ input_file = None) =>
                /\ stderr = <<Line("ERROR", "Input file not found", <<input_path>>)>>
                /\ stdout = <<>> /\ exit_code = Some(1)
                /\ success = None

===========================================================================
